---- MODULE Spec2Model ----
(***************************************************************************)
(* Model of silence_removal.py: silence detection on an audio track, the   *)
(* chunked detection of long videos with its interval merge, the planning  *)
(* of the segments to keep, and main()'s reporting.                        *)
(*                                                                         *)
(* Times.  pydub reports milliseconds (integers); the program divides by   *)
(* 1000 and works on float seconds.  Here every time is an integer number  *)
(* of milliseconds, i.e. a float second s is represented by s * MsPerSec   *)
(* (exact decimals with three fractional digits; float rounding is not     *)
(* modelled).  The second-valued program constants chunk_size and          *)
(* LongThreshold are multiplied by MsPerSec where they meet a time.        *)
(*                                                                         *)
(* A track is the sorted sequence of its maximal loud runs <<start, end>>, *)
(* separated by non-empty quiet spans; the audio track is as long as the   *)
(* video.  detect_nonsilent (pydub) is modelled by what it computes on     *)
(* such a track: quiet spans of at least min_silence_len are silence, the  *)
(* rest of the segment is non-silent.                                      *)
(***************************************************************************)
EXTENDS Integers, Sequences, FiniteSets

VARIABLES
    pc,                  \* position of the run
    path,                \* "direct" or "long": which branch of main() runs
    duration,            \* video.duration
    track,               \* the loud runs of the source's audio
    min_silence_length,  \* config['min_silence_length']
    chunks,              \* process_long_video: chunks
    i,                   \* process_long_video: index of the chunk in the loop (1-based)
    temp_files,          \* temporary audio extracts present on disk
    temp_dir,            \* whether temp_chunks exists
    audio_length,        \* get_silent_segments: len(audio)
    non_silent_ranges,   \* get_silent_segments: non_silent_ranges
    all_silent_segments, \* process_long_video: all_silent_segments
    silent_segments,     \* result of get_silent_segments / argument of remove_silence_from_video
    keep_segments,       \* remove_silence_from_video: keep_segments
    concatenated,        \* whether concatenate_videoclips was called
    written,             \* what write_videofile wrote: "none", "full", "clips"
    report               \* what main() printed last: "none", "saved", "error"

vars == <<pc, path, duration, track, min_silence_length, chunks, i, temp_files,
          temp_dir, audio_length, non_silent_ranges, all_silent_segments,
          silent_segments, keep_segments, concatenated, written, report>>

----------------------------------------------------------------------------
(* Program constants *)

\* seconds; process_long_video
chunk_size == 600

\* seconds; main(): "if duration > 1800"
LongThreshold == 1800

\* milliseconds per second: "start/1000", "len(audio) / 1000"
MsPerSec == 1000

\* load_config: default min_silence_length, 0.5 s, in milliseconds
DefaultMinSilence == 500

(* Bounds of the model *)

\* most loud runs in a track of the whole-program specification
MaxRuns == 2

\* largest time of the interval-level specifications (SpecPlan, SpecMerge, SpecDetect)
MaxT == 5

\* most intervals in a sorted input list (SpecPlan, SpecDetect)
MaxSil == 3

\* most intervals in an unordered input list (SpecMerge)
MaxIn == 3

\* largest min_silence_length of SpecDetect
MaxMin == 2

----------------------------------------------------------------------------
(* Helpers on intervals *)

Min(a, b) == IF a <= b THEN a ELSE b

Max(a, b) == IF a >= b THEN a ELSE b

NonEmpty(s) == s[1] < s[2]

\* the non-empty gaps that the sorted disjoint intervals ivs leave in [0, len]
Complement(ivs, len) ==
    LET n == Len(ivs)
        cand == [k \in 1..(n + 1) |->
                    << IF k = 1 THEN 0 ELSE ivs[k - 1][2],
                       IF k = n + 1 THEN len ELSE ivs[k][1] >>]
    IN SelectSeq(cand, NonEmpty)

\* video.subclip(lo, hi).audio: the loud runs inside [lo, hi), on the clip's own clock
Clip(runs, lo, hi) ==
    LET cut == [k \in 1..Len(runs) |->
                    << Max(runs[k][1], lo) - lo, Min(runs[k][2], hi) - lo >>]
    IN IF runs = <<>> THEN <<>> ELSE SelectSeq(cut, NonEmpty)

----------------------------------------------------------------------------
(* get_silent_segments *)

\* pydub detect_silence: the quiet spans of the segment that last at least
\* min_len; nothing when the segment itself is shorter than min_len
DetectSilence(audio, len, min_len) ==
    IF len < min_len
    THEN <<>>
    ELSE SelectSeq(Complement(audio, len), LAMBDA s : s[2] - s[1] >= min_len)

\* pydub detect_nonsilent, called at lines 74-78: the whole segment when there
\* is no silence, nothing when the segment is one silence, otherwise the
\* non-empty stretches between the silences
DetectNonsilent(audio, len, min_len) ==
    LET silent_ranges == DetectSilence(audio, len, min_len)
    IN IF silent_ranges = <<>> THEN << <<0, len>> >>
       ELSE IF silent_ranges[1] = <<0, len>> THEN <<>>
       ELSE Complement(silent_ranges, len)

\* mutant: the filter on min_silence_length is left out
SilentSegmentsNoFilter(nsr, audio_len, min_len) ==
    LET n == Len(nsr)
        lead == IF n > 0 /\ nsr[1][1] > 0 THEN << <<0, nsr[1][1]>> >> ELSE <<>>
        between == IF n > 1
                   THEN [k \in 1..(n - 1) |-> <<nsr[k][2], nsr[k + 1][1]>>]
                   ELSE <<>>
        trail == IF n > 0 /\ nsr[n][2] < audio_len
                 THEN << <<nsr[n][2], audio_len>> >> ELSE <<>>
    IN lead \o between \o trail

\* lines 83-103: the silent segments are the gaps between the non-silent
\* ranges, a leading and a trailing one included, those shorter than
\* min_silence_length dropped
SilentSegments(nsr, audio_len, min_len) ==
    LET n == Len(nsr)
        lead == IF n > 0 /\ nsr[1][1] > 0 THEN << <<0, nsr[1][1]>> >> ELSE <<>>
        between == IF n > 1
                   THEN [k \in 1..(n - 1) |-> <<nsr[k][2], nsr[k + 1][1]>>]
                   ELSE <<>>
        trail == IF n > 0 /\ nsr[n][2] < audio_len
                 THEN << <<nsr[n][2], audio_len>> >> ELSE <<>>
    IN SelectSeq(lead \o between \o trail, LAMBDA s : s[2] - s[1] >= min_len)

\* get_silent_segments as a whole, on an audio file holding the loud runs audio
GetSilentSegments(audio, len, min_len) ==
    SilentSegments(DetectNonsilent(audio, len, min_len), len, min_len)

----------------------------------------------------------------------------
(* remove_silence_from_video: the segments to keep *)

\* mutant: the segment from the last silence to the end is forgotten
KeepSegmentsNoTail(S, D) ==
    LET n == Len(S)
        lead == IF S[1][1] > 0 THEN << <<0, S[1][1]>> >> ELSE <<>>
        between == IF n > 1
                   THEN [k \in 1..(n - 1) |-> <<S[k][2], S[k + 1][1]>>]
                   ELSE <<>>
    IN lead \o between

\* mutant: the segment from the start to the first silence is added
\* without looking at where the first silence starts
KeepSegmentsAlwaysLead(S, D) ==
    LET n == Len(S)
        lead == << <<0, S[1][1]>> >>
        between == IF n > 1
                   THEN [k \in 1..(n - 1) |-> <<S[k][2], S[k + 1][1]>>]
                   ELSE <<>>
        trail == IF S[n][2] < D THEN << <<S[n][2], D>> >> ELSE <<>>
    IN lead \o between \o trail

\* lines 138-151, for a non-empty list S of silences and video.duration D
KeepSegments(S, D) ==
    LET n == Len(S)
        lead == IF S[1][1] > 0 THEN << <<0, S[1][1]>> >> ELSE <<>>
        between == IF n > 1
                   THEN [k \in 1..(n - 1) |-> <<S[k][2], S[k + 1][1]>>]
                   ELSE <<>>
        trail == IF S[n][2] < D THEN << <<S[n][2], D>> >> ELSE <<>>
    IN lead \o between \o trail

----------------------------------------------------------------------------
(* process_long_video: chunks and merge *)

\* lines 190-192: [(i, min(i + chunk_size, duration))
\*                 for i in range(0, int(duration), chunk_size)]
Chunks(d) ==
    LET int_duration == d \div MsPerSec
        n == (int_duration + chunk_size - 1) \div chunk_size
    IN [k \in 1..n |-> << (k - 1) * chunk_size * MsPerSec,
                          Min(k * chunk_size * MsPerSec, d) >>]

\* line 217: the chunk's segments moved to the video's clock
Adjust(segs, start) ==
    [k \in 1..Len(segs) |-> <<segs[k][1] + start, segs[k][2] + start>>]

\* the order of Python tuples
TupleLeq(a, b) == a[1] < b[1] \/ (a[1] = b[1] /\ a[2] <= b[2])

InsertSorted(x, s) ==
    LET k == Cardinality({j \in 1..Len(s) : TupleLeq(s[j], x)})
    IN SubSeq(s, 1, k) \o <<x>> \o SubSeq(s, k + 1, Len(s))

RECURSIVE SortSegments(_)
\* line 225: all_silent_segments.sort()
SortSegments(s) ==
    IF s = <<>> THEN <<>>
    ELSE InsertSorted(s[Len(s)], SortSegments(SubSeq(s, 1, Len(s) - 1)))

RECURSIVE SweepStrict(_, _)
SweepStrict(merged, rest) ==
    IF rest = <<>> THEN merged
    ELSE LET segment == rest[1]
             m == Len(merged)
         IN IF segment[1] < merged[m][2]
            THEN SweepStrict([merged EXCEPT ![m] = <<merged[m][1], Max(merged[m][2], segment[2])>>],
                             Tail(rest))
            ELSE SweepStrict(Append(merged, segment), Tail(rest))

\* mutant: a segment is fused only when it starts before the last merged end
MergeSegmentsStrict(all) ==
    IF all = <<>> THEN <<>>
    ELSE LET sorted == SortSegments(all)
         IN SweepStrict(<<sorted[1]>>, Tail(sorted))

RECURSIVE Sweep(_, _)
\* lines 228-235: the sweep over the sorted segments
Sweep(merged, rest) ==
    IF rest = <<>> THEN merged
    ELSE LET segment == rest[1]
             m == Len(merged)
         IN IF segment[1] <= merged[m][2]
            THEN Sweep([merged EXCEPT ![m] = <<merged[m][1], Max(merged[m][2], segment[2])>>],
                       Tail(rest))
            ELSE Sweep(Append(merged, segment), Tail(rest))

\* lines 223-237
MergeSegments(all) ==
    IF all = <<>> THEN <<>>
    ELSE LET sorted == SortSegments(all)
         IN Sweep(<<sorted[1]>>, Tail(sorted))

----------------------------------------------------------------------------
(* Inputs *)

\* times at which a loud run of a track may start or end (milliseconds)
Points == {0, 1000, 3000, 4200, 5000, 595000, 599800, 600000, 600400,
           615000, 1200000, 1205000, 2000000, 2400000, 2400500}

\* video durations (milliseconds): a short video, and long ones with and
\* without a fraction of a second
Durations == {5000, 2000000, 2400500}

SetMin(P) == CHOOSE a \in P : \A b \in P : a <= b

RECURSIVE RunsOf(_)
\* the runs whose starts and ends are, alternately, the points of P
RunsOf(P) ==
    IF P = {} THEN <<>>
    ELSE LET a == SetMin(P)
             b == SetMin(P \ {a})
         IN << <<a, b>> >> \o RunsOf(P \ {a, b})

\* the tracks of length d with at most MaxRuns loud runs
Tracks(d) ==
    { RunsOf(P) : P \in { Q \in SUBSET { t \in Points : t <= d } :
                           /\ Cardinality(Q) % 2 = 0
                           /\ Cardinality(Q) <= 2 * MaxRuns } }

\* the intervals <<a, b>> with lo <= a < b <= MaxT
Intervals(lo) == { p \in (lo..MaxT) \X (lo..MaxT) : p[1] < p[2] }

RECURSIVE SortedLists(_, _)
\* the lists of at most n intervals in lo..MaxT, sorted and pairwise disjoint
\* (an interval may start where the one before it ends)
SortedLists(lo, n) ==
    {<<>>} \cup
    (IF n = 0 THEN {}
     ELSE UNION { { <<p>> \o rest : rest \in SortedLists(p[2], n - 1) } :
                  p \in Intervals(lo) })

\* the lists of at most MaxIn intervals in 0..MaxT, in any order
AnyLists == UNION { [1..n -> Intervals(0)] : n \in 0..MaxIn }

LastEnd(S) == IF S = <<>> THEN 0 ELSE S[Len(S)][2]

----------------------------------------------------------------------------
(* The run of main() *)

Init ==
    /\ pc = "main"
    /\ path = "none"
    /\ duration \in Durations
    /\ track \in Tracks(duration)
    /\ min_silence_length = DefaultMinSilence
    /\ chunks = <<>>
    /\ i = 0
    /\ temp_files = {}
    /\ temp_dir = FALSE
    /\ audio_length = 0
    /\ non_silent_ranges = <<>>
    /\ all_silent_segments = <<>>
    /\ silent_segments = <<>>
    /\ keep_segments = <<>>
    /\ concatenated = FALSE
    /\ written = "none"
    /\ report = "none"

\* main, lines 294-305: the duration decides between the two ways
MainStart ==
    /\ pc = "main"
    /\ IF duration > LongThreshold * MsPerSec
       THEN path' = "long" /\ pc' = "long_start"
       ELSE path' = "direct" /\ pc' = "direct_extract"
    /\ UNCHANGED <<duration, track, min_silence_length, chunks, i, temp_files,
                   temp_dir, audio_length, non_silent_ranges, all_silent_segments,
                   silent_segments, keep_segments, concatenated, written, report>>

\* process_long_video, lines 184-198
LongStart ==
    /\ pc = "long_start"
    /\ chunks' = Chunks(duration)
    /\ temp_dir' = TRUE
    /\ all_silent_segments' = <<>>
    /\ i' = 1
    /\ pc' = IF Chunks(duration) = <<>> THEN "merge" ELSE "chunk_extract"
    /\ UNCHANGED <<path, duration, track, min_silence_length, temp_files,
                   audio_length, non_silent_ranges, silent_segments,
                   keep_segments, concatenated, written, report>>

\* process_long_video, lines 200-211: write the chunk's audio to audio_<i>.wav;
\* write_audiofile may raise, leaving the file or not
ChunkExtract ==
    /\ pc = "chunk_extract"
    /\ \/ /\ temp_files' = temp_files \cup {i}
          /\ pc' = "chunk_detect"
       \/ /\ \E left \in BOOLEAN :
                temp_files' = IF left THEN temp_files \cup {i} ELSE temp_files
          /\ pc' = "except"
    /\ UNCHANGED <<path, duration, track, min_silence_length, chunks, i,
                   temp_dir, audio_length, non_silent_ranges, all_silent_segments,
                   silent_segments, keep_segments, concatenated, written, report>>

\* get_silent_segments called at line 214, its lines 67-81: load the audio and
\* detect the non-silent ranges; AudioSegment.from_file may raise
ChunkDetect ==
    /\ pc = "chunk_detect"
    /\ \/ /\ audio_length' = chunks[i][2] - chunks[i][1]
          /\ non_silent_ranges' =
                DetectNonsilent(Clip(track, chunks[i][1], chunks[i][2]),
                                chunks[i][2] - chunks[i][1], min_silence_length)
          /\ pc' = "chunk_silent"
       \/ /\ pc' = "except"
          /\ UNCHANGED <<audio_length, non_silent_ranges>>
    /\ UNCHANGED <<path, duration, track, min_silence_length, chunks, i,
                   temp_files, temp_dir, all_silent_segments, silent_segments,
                   keep_segments, concatenated, written, report>>

\* get_silent_segments lines 83-103, then process_long_video lines 216-218
ChunkSilent ==
    /\ pc = "chunk_silent"
    /\ silent_segments' =
          SilentSegments(non_silent_ranges, audio_length, min_silence_length)
    /\ all_silent_segments' =
          all_silent_segments \o Adjust(silent_segments', chunks[i][1])
    /\ pc' = "chunk_cleanup"
    /\ UNCHANGED <<path, duration, track, min_silence_length, chunks, i,
                   temp_files, temp_dir, audio_length, non_silent_ranges,
                   keep_segments, concatenated, written, report>>

\* process_long_video, line 221, and the loop's step
ChunkCleanup ==
    /\ pc = "chunk_cleanup"
    /\ temp_files' = temp_files \ {i}
    /\ i' = i + 1
    /\ pc' = IF i = Len(chunks) THEN "merge" ELSE "chunk_extract"
    /\ UNCHANGED <<path, duration, track, min_silence_length, chunks, temp_dir,
                   audio_length, non_silent_ranges, all_silent_segments,
                   silent_segments, keep_segments, concatenated, written, report>>

\* process_long_video, lines 223-240: merge, and pass the merged segments to
\* remove_silence_from_video
Merge ==
    /\ pc = "merge"
    /\ silent_segments' = MergeSegments(all_silent_segments)
    /\ pc' = "remove"
    /\ UNCHANGED <<path, duration, track, min_silence_length, chunks, i,
                   temp_files, temp_dir, audio_length, non_silent_ranges,
                   all_silent_segments, keep_segments, concatenated, written,
                   report>>

\* main, lines 307-312: write the audio to temp_audio.wav
DirectExtract ==
    /\ pc = "direct_extract"
    /\ \/ /\ temp_files' = temp_files \cup {"temp_audio"}
          /\ pc' = "direct_detect"
       \/ /\ \E left \in BOOLEAN :
                temp_files' = IF left THEN temp_files \cup {"temp_audio"}
                              ELSE temp_files
          /\ pc' = "except"
    /\ UNCHANGED <<path, duration, track, min_silence_length, chunks, i,
                   temp_dir, audio_length, non_silent_ranges, all_silent_segments,
                   silent_segments, keep_segments, concatenated, written, report>>

\* get_silent_segments called at line 316, its lines 67-81
DirectDetect ==
    /\ pc = "direct_detect"
    /\ \/ /\ audio_length' = duration
          /\ non_silent_ranges' =
                DetectNonsilent(Clip(track, 0, duration), duration,
                                min_silence_length)
          /\ pc' = "direct_silent"
       \/ /\ pc' = "except"
          /\ UNCHANGED <<audio_length, non_silent_ranges>>
    /\ UNCHANGED <<path, duration, track, min_silence_length, chunks, i,
                   temp_files, temp_dir, all_silent_segments, silent_segments,
                   keep_segments, concatenated, written, report>>

\* get_silent_segments lines 83-103, returning to main line 316
DirectSilent ==
    /\ pc = "direct_silent"
    /\ silent_segments' =
          SilentSegments(non_silent_ranges, audio_length, min_silence_length)
    /\ pc' = "direct_cleanup"
    /\ UNCHANGED <<path, duration, track, min_silence_length, chunks, i,
                   temp_files, temp_dir, audio_length, non_silent_ranges,
                   all_silent_segments, keep_segments, concatenated, written,
                   report>>

\* main, lines 320-325
DirectCleanup ==
    /\ pc = "direct_cleanup"
    /\ temp_files' = temp_files \ {"temp_audio"}
    /\ pc' = "remove"
    /\ UNCHANGED <<path, duration, track, min_silence_length, chunks, i,
                   temp_dir, audio_length, non_silent_ranges, all_silent_segments,
                   silent_segments, keep_segments, concatenated, written, report>>

\* remove_silence_from_video, lines 129-172: without silences the video is
\* written as it is; without segments to keep the function returns; otherwise
\* the clips are concatenated and written
RemoveSilence ==
    /\ pc = "remove"
    /\ IF silent_segments = <<>>
       THEN /\ written' = "full"
            /\ UNCHANGED <<keep_segments, concatenated>>
       ELSE /\ keep_segments' = KeepSegments(silent_segments, duration)
            /\ IF keep_segments' = <<>>
               THEN UNCHANGED <<concatenated, written>>
               ELSE concatenated' = TRUE /\ written' = "clips"
    /\ pc' = IF path = "long" THEN "rmdir" ELSE "report"
    /\ UNCHANGED <<path, duration, track, min_silence_length, chunks, i,
                   temp_files, temp_dir, audio_length, non_silent_ranges,
                   all_silent_segments, silent_segments, report>>

\* process_long_video, lines 242-246: rmdir removes an empty directory only
RemoveTempDir ==
    /\ pc = "rmdir"
    /\ temp_dir' = (temp_files # {})
    /\ pc' = "report"
    /\ UNCHANGED <<path, duration, track, min_silence_length, chunks, i,
                   temp_files, audio_length, non_silent_ranges,
                   all_silent_segments, silent_segments, keep_segments,
                   concatenated, written, report>>

\* main, lines 327-329: "Processing completed", "Output saved to"
MainReport ==
    /\ pc = "report"
    /\ report' = "saved"
    /\ pc' = "done"
    /\ UNCHANGED <<path, duration, track, min_silence_length, chunks, i,
                   temp_files, temp_dir, audio_length, non_silent_ranges,
                   all_silent_segments, silent_segments, keep_segments,
                   concatenated, written>>

\* main, lines 331-332: "Error processing video"
MainExcept ==
    /\ pc = "except"
    /\ report' = "error"
    /\ pc' = "done"
    /\ UNCHANGED <<path, duration, track, min_silence_length, chunks, i,
                   temp_files, temp_dir, audio_length, non_silent_ranges,
                   all_silent_segments, silent_segments, keep_segments,
                   concatenated, written>>

Next ==
    \/ MainStart
    \/ LongStart
    \/ ChunkExtract
    \/ ChunkDetect
    \/ ChunkSilent
    \/ ChunkCleanup
    \/ Merge
    \/ DirectExtract
    \/ DirectDetect
    \/ DirectSilent
    \/ DirectCleanup
    \/ RemoveSilence
    \/ RemoveTempDir
    \/ MainReport
    \/ MainExcept

Spec == Init /\ [][Next]_vars

----------------------------------------------------------------------------
(* remove_silence_from_video on every sorted list of disjoint silences *)

InitPlan ==
    /\ pc = "remove"
    /\ path = "direct"
    /\ silent_segments \in SortedLists(0, MaxSil)
    /\ duration \in Max(1, LastEnd(silent_segments))..MaxT
    /\ track = <<>>
    /\ min_silence_length = 1
    /\ chunks = <<>>
    /\ i = 0
    /\ temp_files = {}
    /\ temp_dir = FALSE
    /\ audio_length = duration
    /\ non_silent_ranges = <<>>
    /\ all_silent_segments = <<>>
    /\ keep_segments = <<>>
    /\ concatenated = FALSE
    /\ written = "none"
    /\ report = "none"

NextPlan == RemoveSilence \/ MainReport

SpecPlan == InitPlan /\ [][NextPlan]_vars

----------------------------------------------------------------------------
(* the merge of process_long_video on every list of intervals *)

InitMerge ==
    /\ pc = "merge"
    /\ path = "long"
    /\ all_silent_segments \in AnyLists
    /\ duration = MaxT
    /\ track = <<>>
    /\ min_silence_length = 1
    /\ chunks = <<>>
    /\ i = 0
    /\ temp_files = {}
    /\ temp_dir = TRUE
    /\ audio_length = 0
    /\ non_silent_ranges = <<>>
    /\ silent_segments = <<>>
    /\ keep_segments = <<>>
    /\ concatenated = FALSE
    /\ written = "none"
    /\ report = "none"

NextMerge == Merge \/ RemoveSilence \/ RemoveTempDir \/ MainReport

SpecMerge == InitMerge /\ [][NextMerge]_vars

----------------------------------------------------------------------------
(* lines 83-103 of get_silent_segments on every sorted list of disjoint      *)
(* non-silent ranges                                                         *)

InitDetect ==
    /\ pc = "direct_silent"
    /\ path = "direct"
    /\ non_silent_ranges \in SortedLists(0, MaxSil)
    /\ audio_length \in Max(1, LastEnd(non_silent_ranges))..MaxT
    /\ duration = audio_length
    /\ min_silence_length \in 1..MaxMin
    /\ track = <<>>
    /\ chunks = <<>>
    /\ i = 0
    /\ temp_files = {"temp_audio"}
    /\ temp_dir = FALSE
    /\ all_silent_segments = <<>>
    /\ silent_segments = <<>>
    /\ keep_segments = <<>>
    /\ concatenated = FALSE
    /\ written = "none"
    /\ report = "none"

NextDetect == DirectSilent \/ DirectCleanup \/ RemoveSilence \/ MainReport

SpecDetect == InitDetect /\ [][NextDetect]_vars

----------------------------------------------------------------------------
(* Properties *)

\* how many intervals of ivs hold the instant t (intervals are half-open)
CoverCount(t, ivs) ==
    Cardinality({k \in 1..Len(ivs) : ivs[k][1] <= t /\ t < ivs[k][2]})

\* each interval starts strictly after the one before it ends
StrictlySeparated(S) ==
    \A k \in 1..(Len(S) - 1) : S[k][2] < S[k + 1][1]

\* the maximal quiet spans of the whole track
QuietSpans == Complement(track, duration)

\* the quiet span s has instants on both sides of a boundary between two chunks
CrossesBoundary(s) ==
    \E k \in 1..(Len(chunks) - 1) : s[1] < chunks[k][2] /\ chunks[k][2] < s[2]

\* C1: for every sorted list S of disjoint silences and every duration
\* D >= max end of S, once remove_silence_from_video has planned, every instant
\* of [0, D) lies in exactly one interval of S or of the segments to keep, and
\* no segment to keep leaves [0, D]; with no silence at all the whole video
\* is written.
C1_PlanPartitions ==
    pc # "remove" =>
        IF silent_segments = <<>>
        THEN written = "full"
        ELSE /\ \A t \in 0..(duration - 1) :
                    CoverCount(t, silent_segments) + CoverCount(t, keep_segments) = 1
             /\ \A k \in 1..Len(keep_segments) :
                    /\ 0 <= keep_segments[k][1]
                    /\ keep_segments[k][1] <= keep_segments[k][2]
                    /\ keep_segments[k][2] <= duration

\* C1 witness: two silences with a kept segment before, between and after them
C1_Witness ==
    /\ pc = "done"
    /\ Len(silent_segments) = 2
    /\ Len(keep_segments) = 3
    /\ StrictlySeparated(silent_segments)

\* C2: when a track has no non-silent range and lasts at least
\* min_silence_length, get_silent_segments returns the one interval
\* (0, duration).
C2_AllSilentIsOneInterval ==
    (/\ pc \in {"direct_cleanup", "chunk_cleanup"}
     /\ non_silent_ranges = <<>>
     /\ audio_length >= min_silence_length)
    => silent_segments = << <<0, audio_length>> >>

\* C3: when the segments to keep come out empty, the run neither concatenates
\* nor writes, and it does not end reported as saved.
C3_EmptyKeepDistinctOutcome ==
    (/\ pc = "done"
     /\ silent_segments # <<>>
     /\ keep_segments = <<>>)
    => (/\ ~concatenated
        /\ written = "none"
        /\ report # "saved")

\* C4: in chunked mode every quiet span of at least min_silence_length that
\* crosses a chunk boundary is one interval of the merged silence list.
C4_StraddlingSpanIsOneInterval ==
    (pc = "remove" /\ path = "long") =>
        \A m \in 1..Len(QuietSpans) :
            (/\ QuietSpans[m][2] - QuietSpans[m][1] >= min_silence_length
             /\ CrossesBoundary(QuietSpans[m]))
            => \E j \in 1..Len(silent_segments) : silent_segments[j] = QuietSpans[m]

\* C5: when no quiet span crosses a chunk boundary, the merged list of the
\* chunked detection equals get_silent_segments on the whole track.
C5_ChunkedEqualsWhole ==
    (/\ pc = "remove"
     /\ path = "long"
     /\ \A m \in 1..Len(QuietSpans) : ~CrossesBoundary(QuietSpans[m]))
    => silent_segments =
          GetSilentSegments(Clip(track, 0, duration), duration, min_silence_length)

\* C6: for every list of intervals, in any order, the merge returns intervals
\* each of which starts strictly after the one before it ends, whose union is
\* the union of the inputs: every instant is covered by the output exactly
\* when it is covered by the input, every input lies inside one output, and
\* every output starts at an input's start and ends at an input's end.
C6_MergeSortedDisjointUnion ==
    pc # "merge" =>
        /\ StrictlySeparated(silent_segments)
        /\ \A k \in 1..Len(silent_segments) : NonEmpty(silent_segments[k])
        /\ \A t \in 0..(MaxT - 1) :
              (CoverCount(t, silent_segments) > 0) <=> (CoverCount(t, all_silent_segments) > 0)
        /\ \A j \in 1..Len(all_silent_segments) :
              \E k \in 1..Len(silent_segments) :
                 /\ silent_segments[k][1] <= all_silent_segments[j][1]
                 /\ all_silent_segments[j][2] <= silent_segments[k][2]
        /\ \A k \in 1..Len(silent_segments) :
              /\ \E j \in 1..Len(all_silent_segments) :
                    all_silent_segments[j][1] = silent_segments[k][1]
              /\ \E j \in 1..Len(all_silent_segments) :
                    all_silent_segments[j][2] = silent_segments[k][2]

\* C6 witness: three inputs out of order, two of them touching, merged into two
C6_Witness ==
    /\ pc = "remove"
    /\ Len(all_silent_segments) = 3
    /\ all_silent_segments[1][1] > all_silent_segments[2][1]
    /\ \E j, k \in 1..3 : all_silent_segments[j][2] = all_silent_segments[k][1]
    /\ Len(silent_segments) = 2

\* C7: for every sorted list of disjoint non-silent ranges inside
\* [0, duration], the silent segments returned are sorted, do not overlap, lie
\* inside [0, duration] and each lasts at least min_silence_length.
C7_DetectContract ==
    pc # "direct_silent" =>
        /\ \A k \in 1..Len(silent_segments) :
              /\ 0 <= silent_segments[k][1]
              /\ silent_segments[k][2] <= audio_length
              /\ silent_segments[k][2] - silent_segments[k][1] >= min_silence_length
        /\ \A k \in 1..(Len(silent_segments) - 1) :
              /\ silent_segments[k][1] <= silent_segments[k + 1][1]
              /\ silent_segments[k][2] <= silent_segments[k + 1][1]

\* C7 witness: a gap shorter than min_silence_length between two non-silent
\* ranges was dropped and another silent segment was returned
C7_Witness ==
    /\ pc = "direct_cleanup"
    /\ \E k \in 1..(Len(non_silent_ranges) - 1) :
          /\ non_silent_ranges[k][2] < non_silent_ranges[k + 1][1]
          /\ non_silent_ranges[k + 1][1] - non_silent_ranges[k][2] < min_silence_length
    /\ silent_segments # <<>>

\* C8: the chunks of process_long_video partition [0, duration): the first
\* starts at 0, each starts where the one before ends, all but the last are
\* chunk_size long, the last is not empty and ends at duration.
C8_ChunksPartition ==
    (path = "long" /\ pc # "long_start") =>
        LET n == Len(chunks)
        IN /\ n > 0
           /\ chunks[1][1] = 0
           /\ \A k \in 1..(n - 1) :
                 /\ chunks[k + 1][1] = chunks[k][2]
                 /\ chunks[k][2] - chunks[k][1] = chunk_size * MsPerSec
           /\ chunks[n][1] < chunks[n][2]
           /\ chunks[n][2] = duration

\* C9: no run, one that ended with an error included, ends with a temporary
\* audio extract still on disk.
C9_NoTempFileLeft ==
    pc = "done" => temp_files = {}

\* C10 as claimed: for every sorted list of disjoint silences, touching ones
\* included, every segment to keep has 0 <= start < end <= duration.
C10_KeepNonEmpty ==
    pc # "remove" =>
        \A k \in 1..Len(keep_segments) :
            /\ 0 <= keep_segments[k][1]
            /\ keep_segments[k][1] < keep_segments[k][2]
            /\ keep_segments[k][2] <= duration

\* C10 as amended: for every sorted list of silences inside [0, duration] in
\* which each silence starts strictly after the one before it ends, every
\* segment to keep has 0 <= start < end <= duration.
C10_KeepNonEmptySeparated ==
    (pc # "remove" /\ StrictlySeparated(silent_segments)) =>
        \A k \in 1..Len(keep_segments) :
            /\ 0 <= keep_segments[k][1]
            /\ keep_segments[k][1] < keep_segments[k][2]
            /\ keep_segments[k][2] <= duration

\* C10 witness: separated silences, the first starting at 0, and segments kept
C10_Witness ==
    /\ pc = "report"
    /\ Len(silent_segments) >= 2
    /\ StrictlySeparated(silent_segments)
    /\ silent_segments[1][1] = 0
    /\ Len(keep_segments) >= 2

====
